---- MODULE Spec2Model ----
(***************************************************************************)
(* A model of the dependency-driven step scheduler of src/runner.rs:       *)
(* StepRunner::poll, the worker closure it submits to the thread pool, and *)
(* the coordinator run_steps.  Step indices are 1..nsteps here (0..N-1 in  *)
(* the source).                                                            *)
(***************************************************************************)
EXTENDS Integers, Sequences, FiniteSets, TLC

\* ------------------------------------------------------------------------
\* Bounds of the model
\* ------------------------------------------------------------------------
\* the largest number of steps handed to run_steps
MaxSteps == 3
\* the number of threads of the pool (ThreadPool::default() takes the
\* number of CPUs of the machine)
NumThreads == 2
\* the largest number of steps whose RunType is RunType::Step
MaxRefs == 1
\* the largest number of dependency declarations of the whole input
MaxRequires == 3

\* ------------------------------------------------------------------------
\* Data
\* ------------------------------------------------------------------------
\* Option<String>: None is the empty tuple, Some(s) the one-element tuple
None == << >>
Some(s) == << s >>

\* the names of the steps, by index (Step::name)
NameTable == << "a", "b", "c", "d", "e" >>
StepName(i) == NameTable[i]

\* the output a non-reference action of step i prints when it succeeds
OutputTable == << "oa", "ob", "oc", "od", "oe" >>

\* a name no step carries (an unresolvable dependency declaration)
Unknown == 0

\* Outcome { output, error, duration }
Outcome(o, e, d) == [output |-> o, error |-> e, duration |-> d]
NoOutcome == Outcome(None, None, 0)

\* enum Status { InProgress, Outstanding, Completed(Outcome) }
Outstanding == [tag |-> "Outstanding", outcome |-> NoOutcome]
InProgress == [tag |-> "InProgress", outcome |-> NoOutcome]
Completed(oc) == [tag |-> "Completed", outcome |-> oc]

IsCompleted(st) == st.tag = "Completed"
HasError(st) == IsCompleted(st) /\ st.outcome.error # None

\* RunType: RunType::Step(String) and every other variant (opaque here)
RunStep(s) == [kind |-> "Step", val |-> s]
RunOther(s) == [kind |-> "Other", val |-> s]

\* a synthetic outcome that carries no error
DependencyNotMetNoError == Outcome(Some(""), None, 0)

\* the synthetic outcome of a step whose dependency failed
DependencyNotMet == Outcome(Some(""), Some("Dependency Not Met"), 0)

\* what the execute contract can do for a step
Behaviours == {"ok", "noout", "fail"}

VARIABLES
    nsteps,      \* steps.len()
    require,     \* require[i]: the dependencies step i declares (indices, or Unknown)
    run,         \* run[i]: steps[i].run
    behaviour,   \* behaviour[i]: what run.execute did for step i ("unset": not called)
    stepOutcome, \* stepOutcome[i]: steps[i].outcome (Option<Outcome>)
    pc,          \* where run_steps is
    graph,       \* the edges <<dependency, dependent>> of the GraphMap
    status,      \* steps_status: the Vec<Status> under the Mutex (<< >>: not built)
    lock,        \* who holds the Mutex: "free" or "coord"
    polling,     \* the runner whose poll holds the lock (0: none)
    order,       \* the order in which that poll gets the incoming neighbours
    has_error,   \* has_error of that poll, once its loop has sent
    finished,    \* the index the receive loop is handling (0: none)
    cursor,      \* the next runner of the initial pass
    received,    \* the number of rx.recv() that returned
    toPoll,      \* the neighbours still to poll for the last received index
    job,         \* job[i]: the closure submitted for step i
    queue,       \* the jobs waiting in the pool, in submission order
    chan,        \* the messages in the channel, in sending order
    sent,        \* sent[i]: how many times i was sent on the channel
    dispatched,  \* dispatched[i]: how many times pool.execute was called for i
    executed     \* executed[i]: how many times run.execute was called for i

vars == << nsteps, require, run, behaviour, stepOutcome, pc, graph, status,
           lock, polling, order, has_error, finished, cursor, received,
           toPoll, job, queue, chan, sent, dispatched, executed >>

\* the locals of the poll that holds the lock
pollVars == << polling, order, has_error >>

inputVars == << nsteps, require, run >>

Steps == 1..nsteps

\* ------------------------------------------------------------------------
\* The external collaborators
\* ------------------------------------------------------------------------
\* the name -> index lookup (HashMap<&str, usize>) built from the step names
NameLookup(name) == CHOOSE i \in 1..Len(NameTable) : NameTable[i] = name

\* the edges create_graph adds: one from each declared dependency, and one
\* from the step a RunType::Step refers to
DeclaredEdges(n, req, rn) ==
    { e \in (1..n) \X (1..n) :
        \/ e[1] \in req[e[2]]
        \/ rn[e[2]].kind = "Step" /\ rn[e[2]].val = StepName(e[1]) }

\* the nodes reachable from node i along at least one edge of g
RECURSIVE ReachFrom(_, _, _)
ReachFrom(g, frontier, seen) ==
    LET next == {e[2] : e \in {x \in g : x[1] \in frontier}} \ seen
    IN  IF next = {} THEN seen ELSE ReachFrom(g, next, seen \cup next)

Descendants(g, i) == ReachFrom(g, {i}, {})

IsCyclic(n, g) == \E i \in 1..n : i \in Descendants(g, i)

\* create_graph(&steps): Err on an unresolvable dependency or a cycle
CreateGraphFails(n, req, rn) ==
    \/ \E i \in 1..n : Unknown \in req[i]
    \/ IsCyclic(n, DeclaredEdges(n, req, rn))

\* run.execute(expect, filters, retry) for step i with the resolved action r
Execute(i, r, b) ==
    CASE b = "fail"  -> Outcome(None, Some("boom"), 1)
      [] b = "noout" -> Outcome(None, None, 1)
      [] OTHER       -> IF r.kind = "Step"
                        THEN Outcome(Some(r.val), None, 1)
                        ELSE Outcome(Some(OutputTable[i]), None, 1)

\* ------------------------------------------------------------------------
\* The graph queries of poll and run_steps
\* ------------------------------------------------------------------------
Incoming(i) == {e[1] : e \in {x \in graph : x[2] = i}}
Outgoing(i) == {e[2] : e \in {x \in graph : x[1] = i}}

\* the orders in which neighbors_directed can yield the set s
Orders(s) ==
    {q \in [1..Cardinality(s) -> s] : \A x \in s : \E k \in DOMAIN q : q[k] = x}

\* ------------------------------------------------------------------------
\* StepRunner::poll
\* ------------------------------------------------------------------------
\* ScanNeighbors looking at the first neighbour only
ScanNeighborsFirstOnly(q, k, st) ==
    IF k > Len(q) \/ k > 1 THEN "ready"
    ELSE IF IsCompleted(st[q[k]])
         THEN IF st[q[k]].outcome.error # None THEN "error" ELSE "ready"
         ELSE "wait"

\* ScanNeighbors going on past a neighbour that is not completed
RECURSIVE ScanNeighborsNoWait(_, _, _)
ScanNeighborsNoWait(q, k, st) ==
    IF k > Len(q) THEN "ready"
    ELSE IF IsCompleted(st[q[k]]) /\ st[q[k]].outcome.error # None
         THEN "error"
         ELSE ScanNeighborsNoWait(q, k + 1, st)

\* ScanNeighbors taking a neighbour completed with an error as satisfied
RECURSIVE ScanNeighborsNoError(_, _, _)
ScanNeighborsNoError(q, k, st) ==
    IF k > Len(q) THEN "ready"
    ELSE IF IsCompleted(st[q[k]])
         THEN ScanNeighborsNoError(q, k + 1, st)
         ELSE "wait"

\* the loop over the incoming neighbours, taken in the order q from position
\* k: "error" at the first dependency completed with an error, "wait" at the
\* first dependency not completed, "ready" when the loop runs to its end
RECURSIVE ScanNeighbors(_, _, _)
ScanNeighbors(q, k, st) ==
    IF k > Len(q) THEN "ready"
    ELSE IF IsCompleted(st[q[k]])
         THEN IF st[q[k]].outcome.error # None
              THEN "error"
              ELSE ScanNeighbors(q, k + 1, st)
         ELSE "wait"

\* PollDecision without the early return of a completed step
PollDecisionNoReturn(i, q, st) ==
    LET r == ScanNeighbors(q, 1, st)
    IN  IF r = "ready"
        THEN IF st[i] = Outstanding THEN "dispatch" ELSE "idle"
        ELSE r

\* PollDecision submitting the work whenever the dependencies are satisfied,
\* also for a step that is InProgress
PollDecisionRefire(i, q, st) ==
    IF IsCompleted(st[i]) THEN "return"
    ELSE LET r == ScanNeighbors(q, 1, st)
         IN  IF r = "ready" THEN "dispatch" ELSE r

\* PollDecision made of the dependency scan alone
PollDecisionUnguarded(i, q, st) ==
    LET r == ScanNeighbors(q, 1, st)
    IN  IF r = "ready" THEN "dispatch" ELSE r

\* what poll of runner i does with the table st, the neighbours coming in
\* the order q: "return" (already completed), "wait", "error" (dependency
\* failure), "dispatch" (submit the work) or "idle" (already in progress)
PollDecision(i, q, st) ==
    IF IsCompleted(st[i]) THEN "return"
    ELSE LET r == ScanNeighbors(q, 1, st)
         IN  IF r = "ready"
             THEN IF st[i] = Outstanding THEN "dispatch" ELSE "idle"
             ELSE r

\* the action poll hands to the pool: a RunType::Step is rewritten to the
\* recorded output of the step it names, when that output is there
ResolveRun(i, st) ==
    IF run[i].kind = "Step"
    THEN LET run_index == NameLookup(run[i].val)
         IN  IF IsCompleted(st[run_index]) /\ st[run_index].outcome.output # None
             THEN RunStep(st[run_index].outcome.output[1])
             ELSE run[i]
    ELSE run[i]

NoJob == [phase |-> "none", run |-> RunOther(""), outcome |-> NoOutcome]

\* NextLoopPc of a receive loop that stops one receive early
NextLoopPcOneLess(r) == IF r >= nsteps - 1 THEN "join" ELSE "recv"

\* NextLoopPc of a receive loop that runs once too often
NextLoopPcOneMore(r) == IF r = nsteps + 1 THEN "join" ELSE "recv"

\* where the receive loop of run_steps goes once r indices were handled
NextLoopPc(r) == IF r = nsteps THEN "join" ELSE "recv"

\* the lock().expect(..) at the start of poll, for the runner the
\* coordinator polls next; the order in which neighbors_directed will yield
\* the incoming neighbours is fixed here
PollLock ==
    /\ lock = "free"
    /\ \/ /\ pc = "initial"
          /\ polling' = cursor
       \/ /\ pc = "cascade"
          /\ \E i \in toPoll : polling' = i
    /\ order' \in Orders(Incoming(polling'))
    /\ lock' = "coord"
    /\ UNCHANGED << inputVars, behaviour, stepOutcome, pc, graph, status,
                    has_error, finished, cursor, received, toPoll, job, queue,
                    chan, sent, dispatched, executed >>

\* AfterPoll of an initial pass that stops before the last runner
AfterPollShort(i) ==
    IF pc = "initial"
    THEN /\ cursor' = cursor + 1
         /\ pc' = IF cursor >= nsteps - 1 THEN "recv" ELSE "initial"
         /\ UNCHANGED << toPoll, finished >>
    ELSE /\ toPoll' = toPoll \ {i}
         /\ pc' = IF toPoll \ {i} = {} THEN NextLoopPc(received) ELSE "cascade"
         /\ finished' = IF toPoll \ {i} = {} THEN 0 ELSE finished
         /\ cursor' = cursor

\* the coordinator's position after the poll of runner i returned
AfterPoll(i) ==
    IF pc = "initial"
    THEN /\ cursor' = cursor + 1
         /\ pc' = IF cursor = nsteps THEN "recv" ELSE "initial"
         /\ UNCHANGED << toPoll, finished >>
    ELSE /\ toPoll' = toPoll \ {i}
         /\ pc' = IF toPoll \ {i} = {} THEN NextLoopPc(received) ELSE "cascade"
         /\ finished' = IF toPoll \ {i} = {} THEN 0 ELSE finished
         /\ cursor' = cursor

\* self.notify.send(self.index) in the loop of poll
PollSend(i) ==
    /\ chan' = Append(chan, i)
    /\ sent' = [sent EXCEPT ![i] = @ + 1]

\* the submission of the work of runner i: InProgress, the resolved action
\* and pool.execute
PollDispatch(i) ==
    /\ status' = [status EXCEPT ![i] = InProgress]
    /\ job' = [job EXCEPT ![i] = [phase |-> "queued",
                                  run |-> ResolveRun(i, status),
                                  outcome |-> NoOutcome]]
    /\ queue' = Append(queue, i)
    /\ dispatched' = [dispatched EXCEPT ![i] = @ + 1]

\* the return of poll: the guard of the lock is dropped
PollReturn(i) ==
    /\ AfterPoll(i)
    /\ lock' = "free"
    /\ polling' = 0
    /\ order' = << >>
    /\ has_error' = FALSE

\* the body of poll under the lock: to its return (which releases the
\* lock), or, when a dependency failed, to the send and the break of the loop
PollBody ==
    /\ lock = "coord"
    /\ ~has_error
    /\ LET i == polling
           d == PollDecision(i, order, status)
       IN  CASE d = "error" ->
                  /\ PollSend(i)
                  /\ has_error' = TRUE
                  /\ UNCHANGED << status, job, queue, dispatched, lock, polling,
                                  order, pc, cursor, toPoll, finished >>
             [] d = "dispatch" ->
                  /\ PollDispatch(i)
                  /\ PollReturn(i)
                  /\ UNCHANGED << chan, sent >>
             [] OTHER ->
                  /\ PollReturn(i)
                  /\ UNCHANGED << status, job, queue, dispatched, chan, sent >>
    /\ UNCHANGED << inputVars, behaviour, stepOutcome, graph, received, executed >>

\* if has_error: the write of the dependency-failure outcome, and the return
PollMark ==
    /\ lock = "coord"
    /\ has_error
    /\ status' = [status EXCEPT ![polling] = Completed(DependencyNotMet)]
    /\ PollReturn(polling)
    /\ UNCHANGED << inputVars, behaviour, stepOutcome, graph, received, executed,
                    job, queue, dispatched, chan, sent >>

\* ------------------------------------------------------------------------
\* The closure poll submits to the pool
\* ------------------------------------------------------------------------
\* Active of a pool that does not get a thread back when its closure ends
ActiveLeaky ==
    Cardinality({i \in Steps :
                    job[i].phase \in {"running", "written", "hung", "done"}})

\* the number of pool threads running a closure
Active ==
    Cardinality({i \in Steps : job[i].phase \in {"running", "written", "hung"}})

\* a free thread takes the oldest waiting closure and runs run.execute
WorkerExecute(i) ==
    /\ queue # << >>
    /\ Head(queue) = i
    /\ Active < NumThreads
    /\ \E b \in Behaviours :
          /\ job' = [job EXCEPT ![i].phase = "running",
                                ![i].outcome = Execute(i, job[i].run, b)]
          /\ behaviour' = [behaviour EXCEPT ![i] = b]
    /\ queue' = Tail(queue)
    /\ executed' = [executed EXCEPT ![i] = @ + 1]
    /\ UNCHANGED << inputVars, stepOutcome, pc, graph, status, lock, pollVars,
                    finished, cursor, received, toPoll, chan, sent, dispatched >>

\* a free thread takes the oldest waiting closure and run.execute never
\* returns: the thread stays in it
WorkerHang(i) ==
    /\ queue # << >>
    /\ Head(queue) = i
    /\ Active < NumThreads
    /\ job' = [job EXCEPT ![i].phase = "hung"]
    /\ behaviour' = [behaviour EXCEPT ![i] = "hang"]
    /\ queue' = Tail(queue)
    /\ executed' = [executed EXCEPT ![i] = @ + 1]
    /\ UNCHANGED << inputVars, stepOutcome, pc, graph, status, lock, pollVars,
                    finished, cursor, received, toPoll, chan, sent, dispatched >>

\* a closure that sends without having written its outcome to the table
WorkerWriteLost(i) ==
    /\ job[i].phase = "running"
    /\ lock = "free"
    /\ job' = [job EXCEPT ![i].phase = "written"]
    /\ UNCHANGED << inputVars, behaviour, stepOutcome, pc, graph, status, lock,
                    pollVars, finished, cursor, received, toPoll, queue, chan,
                    sent, dispatched, executed >>

\* the write of the closure made without taking the lock
WorkerWriteNoLock(i) ==
    /\ job[i].phase = "running"
    /\ status' = [status EXCEPT ![i] = Completed(job[i].outcome)]
    /\ job' = [job EXCEPT ![i].phase = "written"]
    /\ UNCHANGED << inputVars, behaviour, stepOutcome, pc, graph, lock, pollVars,
                    finished, cursor, received, toPoll, queue, chan, sent,
                    dispatched, executed >>

\* steps.lock().unwrap()[index] = Status::Completed(outcome)
WorkerWrite(i) ==
    /\ job[i].phase = "running"
    /\ lock = "free"
    /\ status' = [status EXCEPT ![i] = Completed(job[i].outcome)]
    /\ job' = [job EXCEPT ![i].phase = "written"]
    /\ UNCHANGED << inputVars, behaviour, stepOutcome, pc, graph, lock, pollVars,
                    finished, cursor, received, toPoll, queue, chan, sent,
                    dispatched, executed >>

\* tx.send(index), the end of the closure
WorkerSend(i) ==
    /\ job[i].phase = "written"
    /\ chan' = Append(chan, i)
    /\ sent' = [sent EXCEPT ![i] = @ + 1]
    /\ job' = [job EXCEPT ![i].phase = "done"]
    /\ UNCHANGED << inputVars, behaviour, stepOutcome, pc, graph, status, lock,
                    pollVars, finished, cursor, received, toPoll, queue,
                    dispatched, executed >>

\* ------------------------------------------------------------------------
\* run_steps
\* ------------------------------------------------------------------------
\* CreateGraph allocating the status table before it looks at the result of
\* create_graph
CreateGraphLateCheck ==
    /\ pc = "start"
    /\ status' = [i \in Steps |-> Outstanding]
    /\ IF CreateGraphFails(nsteps, require, run)
       THEN /\ pc' = "graph_err"
            /\ UNCHANGED << graph, cursor >>
       ELSE /\ graph' = DeclaredEdges(nsteps, require, run)
            /\ cursor' = 1
            /\ pc' = IF nsteps = 0 THEN "join" ELSE "initial"
    /\ UNCHANGED << inputVars, behaviour, stepOutcome, lock, pollVars, finished,
                    received, toPoll, job, queue, chan, sent, dispatched,
                    executed >>

\* create_graph(&steps)?, then the status table, the lookup, the channel,
\* the pool and the runners
CreateGraph ==
    /\ pc = "start"
    /\ IF CreateGraphFails(nsteps, require, run)
       THEN /\ pc' = "graph_err"
            /\ UNCHANGED << graph, status, cursor >>
       ELSE /\ graph' = DeclaredEdges(nsteps, require, run)
            /\ status' = [i \in Steps |-> Outstanding]
            /\ cursor' = 1
            /\ pc' = IF nsteps = 0 THEN "join" ELSE "initial"
    /\ UNCHANGED << inputVars, behaviour, stepOutcome, lock, pollVars, finished,
                    received, toPoll, job, queue, chan, sent, dispatched,
                    executed >>

\* rx.recv()? of the receive loop
Recv ==
    /\ pc = "recv"
    /\ chan # << >>
    /\ LET f == Head(chan)
       IN  /\ chan' = Tail(chan)
           /\ received' = received + 1
           /\ toPoll' = Outgoing(f)
           /\ finished' = IF Outgoing(f) = {} THEN 0 ELSE f
           /\ pc' = IF Outgoing(f) = {}
                    THEN NextLoopPc(received + 1)
                    ELSE "cascade"
    /\ UNCHANGED << inputVars, behaviour, stepOutcome, graph, status, lock,
                    pollVars, cursor, job, queue, sent, dispatched, executed >>

\* threadpool.join(): returns when no closure waits or runs
Join ==
    /\ pc = "join"
    /\ \A i \in Steps : job[i].phase \in {"none", "done"}
    /\ pc' = "collect"
    /\ UNCHANGED << inputVars, behaviour, stepOutcome, graph, status, lock,
                    pollVars, finished, cursor, received, toPoll, job, queue,
                    chan, sent, dispatched, executed >>

\* Collect writing back the outcomes of the steps that succeeded only
CollectSuccessesOnly ==
    /\ pc = "collect"
    /\ IF \E i \in Steps : job[i].phase \notin {"none", "done"}
       THEN /\ pc' = "unwrap_err"
            /\ stepOutcome' = stepOutcome
       ELSE /\ pc' = "ok"
            /\ stepOutcome' = [i \in Steps |->
                                 IF IsCompleted(status[i]) /\ ~HasError(status[i])
                                 THEN << status[i].outcome >>
                                 ELSE stepOutcome[i]]
    /\ UNCHANGED << inputVars, behaviour, graph, status, lock, pollVars,
                    finished, cursor, received, toPoll, job, queue, chan, sent,
                    dispatched, executed >>

\* Arc::try_unwrap, into_inner and the loop writing the outcomes back
Collect ==
    /\ pc = "collect"
    /\ IF \E i \in Steps : job[i].phase \notin {"none", "done"}
       THEN /\ pc' = "unwrap_err"
            /\ stepOutcome' = stepOutcome
       ELSE /\ pc' = "ok"
            /\ stepOutcome' = [i \in Steps |->
                                 IF IsCompleted(status[i])
                                 THEN << status[i].outcome >>
                                 ELSE stepOutcome[i]]
    /\ UNCHANGED << inputVars, behaviour, graph, status, lock, pollVars,
                    finished, cursor, received, toPoll, job, queue, chan, sent,
                    dispatched, executed >>

\* ------------------------------------------------------------------------
\* The specification
\* ------------------------------------------------------------------------
RunTypes(n) == {RunOther("cmd")} \cup {RunStep(StepName(j)) : j \in 1..n}

RECURSIVE SumCard(_, _)
SumCard(f, n) == IF n = 0 THEN 0 ELSE Cardinality(f[n]) + SumCard(f, n - 1)

Init ==
    /\ nsteps \in 0..MaxSteps
    /\ require \in [1..nsteps -> SUBSET (0..nsteps)]
    /\ SumCard(require, nsteps) <= MaxRequires
    /\ run \in [1..nsteps -> RunTypes(nsteps)]
    /\ Cardinality({i \in 1..nsteps : run[i].kind = "Step"}) <= MaxRefs
    /\ behaviour = [i \in 1..nsteps |-> "unset"]
    /\ stepOutcome = [i \in 1..nsteps |-> None]
    /\ pc = "start"
    /\ graph = {}
    /\ status = << >>
    /\ lock = "free"
    /\ polling = 0
    /\ order = << >>
    /\ has_error = FALSE
    /\ finished = 0
    /\ cursor = 0
    /\ received = 0
    /\ toPoll = {}
    /\ job = [i \in 1..nsteps |-> NoJob]
    /\ queue = << >>
    /\ chan = << >>
    /\ sent = [i \in 1..nsteps |-> 0]
    /\ dispatched = [i \in 1..nsteps |-> 0]
    /\ executed = [i \in 1..nsteps |-> 0]

Next ==
    \/ CreateGraph
    \/ PollLock
    \/ PollBody
    \/ PollMark
    \/ Recv
    \/ Join
    \/ Collect
    \/ \E i \in Steps : WorkerExecute(i)
    \/ \E i \in Steps : WorkerWrite(i)
    \/ \E i \in Steps : WorkerSend(i)

Spec == Init /\ [][Next]_vars

\* the scheduling of the threads: the coordinator thread and the threads of
\* the pool each go on running while they can
FairSpec ==
    /\ Spec
    /\ WF_vars(CreateGraph)
    /\ WF_vars(PollLock)
    /\ WF_vars(PollBody)
    /\ WF_vars(PollMark)
    /\ WF_vars(Recv)
    /\ WF_vars(Join)
    /\ WF_vars(Collect)
    /\ \A i \in 1..MaxSteps :
          /\ WF_vars(i \in Steps /\ WorkerExecute(i))
          /\ WF_vars(i \in Steps /\ WorkerWrite(i))
          /\ WF_vars(i \in Steps /\ WorkerSend(i))

\* the status table poll of runner i leaves when it decides d on the table st
StatusAfterPoll(i, d, st) ==
    CASE d = "error" -> [st EXCEPT ![i] = Completed(DependencyNotMet)]
      [] d = "dispatch" -> [st EXCEPT ![i] = InProgress]
      [] OTHER -> st

\* one more call of poll for runner i, made by the thread of run_steps
\* between two of its own calls, from the lock to the return
RedundantPoll(i) ==
    /\ lock = "free"
    /\ pc \in {"initial", "recv", "cascade"}
    /\ \E q \in Orders(Incoming(i)) :
          LET d == PollDecision(i, q, status)
          IN  /\ status' = StatusAfterPoll(i, d, status)
              /\ CASE d = "error" ->
                        /\ PollSend(i)
                        /\ UNCHANGED << job, queue, dispatched >>
                   [] d = "dispatch" ->
                        /\ job' = [job EXCEPT ![i] =
                                     [phase |-> "queued",
                                      run |-> ResolveRun(i, status),
                                      outcome |-> NoOutcome]]
                        /\ queue' = Append(queue, i)
                        /\ dispatched' = [dispatched EXCEPT ![i] = @ + 1]
                        /\ UNCHANGED << chan, sent >>
                   [] OTHER ->
                        UNCHANGED << job, queue, dispatched, chan, sent >>
    /\ UNCHANGED << inputVars, behaviour, stepOutcome, pc, graph, lock, pollVars,
                    finished, cursor, received, toPoll, executed >>

\* the steps of the program when poll is also called redundantly
RedundantNext ==
    \/ Next
    \/ \E i \in Steps : RedundantPoll(i)

RedundantSpec == Init /\ [][RedundantNext]_vars

\* the steps of the program when run.execute may also never return
HangNext ==
    \/ Next
    \/ \E i \in Steps : WorkerHang(i)

\* the same scheduling, with executes that may never return: a free thread
\* takes the oldest waiting closure, whatever execute then does
HangSpec ==
    /\ Init
    /\ [][HangNext]_vars
    /\ WF_vars(CreateGraph)
    /\ WF_vars(PollLock)
    /\ WF_vars(PollBody)
    /\ WF_vars(PollMark)
    /\ WF_vars(Recv)
    /\ WF_vars(Join)
    /\ WF_vars(Collect)
    /\ \A i \in 1..MaxSteps :
          /\ WF_vars(i \in Steps /\ (WorkerExecute(i) \/ WorkerHang(i)))
          /\ WF_vars(i \in Steps /\ WorkerWrite(i))
          /\ WF_vars(i \in Steps /\ WorkerSend(i))

\* ------------------------------------------------------------------------
\* Properties
\* ------------------------------------------------------------------------
\* the receive loop is over
LoopDone == pc \in {"join", "collect", "ok"}

\* the step was completed by the dependency-failure path of poll
Skipped(i) == IsCompleted(status[i]) /\ dispatched[i] = 0

\* C1: every step index is sent on the channel at most once at any time, and
\* exactly once by the time the receive loop is over.
C1_SentExactlyOnce ==
    /\ \A i \in Steps : sent[i] <= 1
    /\ LoopDone => \A i \in Steps : sent[i] = 1

\* a finished run in which a step with two failed dependencies was skipped
\* (polled once for each of them) next to steps that ran
C1_Witness ==
    /\ pc = "ok"
    /\ \E i \in Steps :
          /\ Skipped(i)
          /\ Cardinality({d \in Incoming(i) : HasError(status[d])}) >= 2
          /\ \E d \in Incoming(i) : executed[d] = 1

\* C2: when create_graph succeeds, run_steps returns Ok; and once the
\* receive loop is over exactly nsteps messages were received and every
\* step is Completed.
C2_Terminates ==
    /\ (pc = "start" /\ ~CreateGraphFails(nsteps, require, run)) ~> (pc = "ok")
    /\ [](LoopDone =>
            /\ received = nsteps
            /\ \A i \in Steps : IsCompleted(status[i]))

\* a run of three steps returned, one of them skipped
C2_Witness ==
    /\ pc = "ok"
    /\ nsteps = MaxSteps
    /\ received = nsteps
    /\ \E i \in Steps : Skipped(i)
    /\ \E i \in Steps : executed[i] = 1

\* C3: a step whose work was submitted to the pool (InProgress, or
\* Completed by execution) has every direct dependency Completed without
\* an error.
C3_DispatchedAfterDependencies ==
    \A i \in Steps :
        (dispatched[i] > 0 \/ (status # << >> /\ status[i] = InProgress)) =>
            \A d \in Incoming(i) : IsCompleted(status[d]) /\ ~HasError(status[d])

\* a step with two dependencies is InProgress
C3_Witness ==
    \E i \in Steps :
        /\ status # << >>
        /\ status[i] = InProgress
        /\ Cardinality(Incoming(i)) >= 2

\* C4: no step is submitted to the pool twice, run.execute is called at
\* most once for a step, and a status that left Outstanding does not come
\* back to it.
C4_DispatchedOnce ==
    [][\A i \in Steps :
          /\ dispatched'[i] <= 1
          /\ executed'[i] <= 1
          /\ (status # << >> /\ status[i] # Outstanding) =>
                 status'[i] # Outstanding]_vars

\* poll runs for a step that is InProgress and whose dependencies are all
\* completed without an error (a redundant poll)
C4_Witness ==
    /\ lock = "coord"
    /\ status[polling] = InProgress
    /\ dispatched[polling] = 1
    /\ \A d \in Incoming(polling) : IsCompleted(status[d]) /\ ~HasError(status[d])
    /\ pc = "cascade"

\* C5: a step that depends, directly or transitively, on a step completed
\* with an error is never submitted to the pool, and has an error itself
\* when run_steps returns.
C5_FailurePropagates ==
    \A a \in Steps : (status # << >> /\ HasError(status[a])) =>
        \A b \in Descendants(graph, a) :
            /\ dispatched[b] = 0
            /\ executed[b] = 0
            /\ status[b] # InProgress
            /\ pc = "ok" => /\ HasError(status[b])
                            /\ stepOutcome[b] # None
                            /\ stepOutcome[b][1].error # None

\* a finished run where a step failed in execution and a step that depends
\* on it only transitively was skipped
C5_Witness ==
    /\ pc = "ok"
    /\ \E a \in Steps :
          /\ behaviour[a] = "fail"
          /\ \E b \in Descendants(graph, a) \ Outgoing(a) : Skipped(b)

\* the rank of a status in Outstanding -> InProgress -> Completed
Rank(st) ==
    CASE st.tag = "Outstanding" -> 0
      [] st.tag = "InProgress" -> 1
      [] OTHER -> 2

\* C6: a status never moves backwards, and a Completed status, with its
\* outcome, never changes.
C6_Monotonic ==
    [][status # << >> =>
          \A i \in Steps :
              /\ Rank(status'[i]) >= Rank(status[i])
              /\ IsCompleted(status[i]) => status'[i] = status[i]]_vars

\* poll runs for a step that is already Completed while a worker has still
\* to write
C6_Witness ==
    /\ lock = "coord"
    /\ IsCompleted(status[polling])
    /\ dispatched[polling] = 1
    /\ \E j \in Steps : job[j].phase = "running"

\* the outcome of step i as the graph, the run types and the behaviour of
\* execute determine it, whatever the order of the completions
RECURSIVE ExpectedOutcome(_)
ExpectedOutcome(i) ==
    IF \E d \in Incoming(i) : ExpectedOutcome(d).error # None
    THEN DependencyNotMet
    ELSE IF behaviour[i] = "unset"
         THEN NoOutcome
         ELSE LET r == IF run[i].kind = "Step"
                       THEN LET o == ExpectedOutcome(NameLookup(run[i].val)).output
                            IN  IF o # None THEN RunStep(o[1]) ELSE run[i]
                       ELSE run[i]
              IN  Execute(i, r, behaviour[i])

\* C7: when run_steps returns, the outcome of every step is the one the
\* graph and the results of execute determine: the order of the
\* completions and of the notifications does not show in the result.
C7_OrderIndependent ==
    pc = "ok" =>
        \A i \in Steps :
            /\ status[i] = Completed(ExpectedOutcome(i))
            /\ stepOutcome[i] = << ExpectedOutcome(i) >>

\* a finished run in which two steps without an edge between them were
\* notified in the opposite order of their dispatch, and a step took the
\* output of another
C7_Witness ==
    /\ pc = "ok"
    /\ \E i \in Steps : run[i].kind = "Step" /\ executed[i] = 1
                        /\ job[i].run.kind = "Step" /\ job[i].run.val # run[i].val
    /\ \E i \in Steps : \E j \in Steps :
          /\ i # j
          /\ executed[i] = 1 /\ executed[j] = 1
          /\ i \notin Descendants(graph, j)
          /\ j \notin Descendants(graph, i)

\* C8 (as claimed): the action handed to execute for a step whose RunType
\* names another step carries the recorded output of that step, never its
\* name.
C8_ResolvedToOutput ==
    \A i \in Steps :
        (run[i].kind = "Step" /\ dispatched[i] > 0) =>
            LET j == NameLookup(run[i].val)
            IN  /\ job[i].run.val # StepName(j)
                /\ status[j].outcome.output = Some(job[i].run.val)

\* C9: once the initial pass is over, every step without an incoming edge
\* has left Outstanding and its work was submitted to the pool; nothing was
\* received before.
C9_RootsDispatchedInInitialPass ==
    /\ (pc \notin {"start", "graph_err", "initial"}) =>
          \A i \in Steps : Incoming(i) = {} =>
              /\ status[i] # Outstanding
              /\ dispatched[i] = 1
    /\ pc = "initial" => received = 0

\* the initial pass just ended on a graph with two roots and a dependent
C9_Witness ==
    /\ pc = "recv"
    /\ received = 0
    /\ Cardinality({i \in Steps : Incoming(i) = {}}) = 2
    /\ \E i \in Steps : Incoming(i) # {} /\ status[i] = Outstanding

\* C10: when create_graph fails, run_steps has returned the error with no
\* status table built, no runner polled, nothing submitted or sent, and no
\* outcome written to a step.
C10_GraphErrorBeforeExecution ==
    pc = "graph_err" =>
        /\ CreateGraphFails(nsteps, require, run)
        /\ status = << >>
        /\ graph = {}
        /\ cursor = 0 /\ polling = 0 /\ lock = "free" /\ received = 0
        /\ queue = << >> /\ chan = << >>
        /\ \A i \in Steps :
              /\ job[i] = NoJob
              /\ dispatched[i] = 0 /\ executed[i] = 0 /\ sent[i] = 0
              /\ stepOutcome[i] = None

\* run_steps returned the error of a cyclic declaration of three steps
C10_Witness ==
    /\ pc = "graph_err"
    /\ nsteps = MaxSteps
    /\ \A i \in Steps : Unknown \notin require[i]

\* C11: run_steps never ends in the error of the status table, and when it
\* returns Ok every step carries an outcome, the one recorded for its index
\* in the status table (for a step that ran, the one execute returned),
\* whether steps failed or not.
C11_OutcomesPopulated ==
    /\ pc # "unwrap_err"
    /\ pc = "ok" =>
          \A i \in Steps :
              /\ IsCompleted(status[i])
              /\ stepOutcome[i] = << status[i].outcome >>
              /\ executed[i] = 1 => status[i].outcome = job[i].outcome

\* run_steps returned Ok for three steps: one failed in execute, one was
\* skipped for it, one succeeded
C11_Witness ==
    /\ pc = "ok"
    /\ nsteps = MaxSteps
    /\ \E i \in Steps : behaviour[i] = "fail" /\ stepOutcome[i] = << job[i].outcome >>
    /\ \E i \in Steps : Skipped(i) /\ stepOutcome[i] = << DependencyNotMet >>
    /\ \E i \in Steps : behaviour[i] = "ok"

\* the steps whose execute never returns
Hung == {i \in Steps : job[i].phase = "hung"}

\* step i is not hung and depends on no hung step
Unrelated(i) == i \notin Hung /\ \A h \in Hung : i \notin Descendants(graph, h)

\* C12 (as claimed): from some point on, every step that is not hung and
\* depends on no hung step is Completed, whatever the number of threads of
\* the pool.
C12_UnrelatedBranchesComplete ==
    <>[](\/ pc \in {"start", "graph_err"}
         \/ \A i \in Steps : Unrelated(i) => IsCompleted(status[i]))

\* C12 (amended): while fewer executes hang than the pool has threads, from
\* some point on every step that is not hung and depends on no hung step is
\* Completed.
C12_UnrelatedCompleteWhileThreadsLeft ==
    <>[](\/ pc \in {"start", "graph_err"}
         \/ Cardinality(Hung) >= NumThreads
         \/ \A i \in Steps : Unrelated(i) => IsCompleted(status[i]))

\* one execute hangs, with a dependent waiting for it, and a step of
\* another branch with a higher index ran to its end
C12_Witness ==
    /\ nsteps = MaxSteps
    /\ Cardinality(Hung) = 1
    /\ Cardinality(Hung) < NumThreads
    /\ \E h \in Hung :
          /\ Outgoing(h) # {}
          /\ \E i \in Steps :
                /\ Unrelated(i)
                /\ i > h
                /\ job[i].phase = "done"
                /\ IsCompleted(status[i])

\* the decisions of poll that change nothing
NoOpDecisions == {"return", "wait", "idle"}

\* C13: with poll called any number of extra times at any point, no step is
\* submitted or notified twice; and in every state, a second call of poll
\* right after a first one (same runner, same neighbour order) changes
\* nothing: the table, the submitted work and the notifications are those
\* of the single call.
C13_PollIdempotent ==
    /\ \A i \in Steps : sent[i] <= 1 /\ dispatched[i] <= 1 /\ executed[i] <= 1
    /\ pc \in {"initial", "recv", "cascade"} =>
          \A i \in Steps : \A q \in Orders(Incoming(i)) :
              LET d == PollDecision(i, q, status)
                  st == StatusAfterPoll(i, d, status)
              IN  /\ PollDecision(i, q, st) \in NoOpDecisions
                  /\ StatusAfterPoll(i, PollDecision(i, q, st), st) = st

\* a redundant poll has submitted a step before the notification of its
\* only dependency, which has a higher index, was received
C13_Witness ==
    /\ pc = "recv"
    /\ received = 0
    /\ \E i \in Steps : \E d \in Steps :
          /\ Incoming(i) = {d}
          /\ d > i
          /\ dispatched[i] = 1

\* C14: on both completion paths the write of Completed precedes the send:
\* in every reachable state, every index that has been sent on the channel
\* has status Completed.
C14_WrittenBeforeSent ==
    pc \notin {"start", "graph_err"} =>
        \A i \in Steps : sent[i] > 0 => IsCompleted(status[i])

\* the first dependency in the inspection order q that is not Completed
\* without error on the table st; 0 if every dependency is satisfied
FirstUnsatisfied(q, st) ==
    LET ks == {k \in 1..Len(q) : ~IsCompleted(st[q[k]]) \/ HasError(st[q[k]])}
    IN  IF ks = {} THEN 0
        ELSE q[CHOOSE k \in ks : \A l \in ks : k <= l]

\* C15 as claimed: a poll of a step that is not Completed and has a direct
\* dependency Completed with an error returns with the step marked
\* dependency-not-met and sent, whatever the other dependencies are and
\* whatever the inspection order is.
C15_ErroredDependencyAlwaysSkips ==
    [][(/\ lock = "coord"
        /\ lock' = "free"
        /\ ~IsCompleted(status[polling])
        /\ \E d \in Incoming(polling) : HasError(status[d]))
       => /\ status'[polling] = Completed(DependencyNotMet)
          /\ sent'[polling] = 1]_vars

\* C15: a poll of a step that is not Completed returns with the step marked
\* dependency-not-met and sent when the first dependency it finds not
\* satisfied, in its inspection order, is Completed with an error.
C15_FirstUnsatisfiedErroredSkips ==
    [][(/\ lock = "coord"
        /\ lock' = "free"
        /\ ~IsCompleted(status[polling])
        /\ FirstUnsatisfied(order, status) # 0
        /\ HasError(status[FirstUnsatisfied(order, status)]))
       => /\ status'[polling] = Completed(DependencyNotMet)
          /\ sent'[polling] = 1
          /\ \E k \in 1..Len(chan') : chan'[k] = polling]_vars

\* poll has found an errored dependency first and sent, while another
\* dependency of the step is not yet Completed
C15_Witness ==
    /\ lock = "coord"
    /\ has_error
    /\ sent[polling] = 1
    /\ \E d \in Incoming(polling) : ~IsCompleted(status[d])

\* C16: when run_steps has returned Ok, the outcome of a step is the
\* synthetic one (output "", error "Dependency Not Met", duration zero)
\* exactly if the final outcome of one of its direct dependencies has an
\* error, and such a step was never executed; the outcome of every other
\* step is the one its single call of execute returned.
C16_SyntheticIffDependencyFailed ==
    pc = "ok" =>
        \A i \in Steps :
            LET failedDep == \E d \in Incoming(i) :
                                stepOutcome[d][1].error # None
                synthetic == [output |-> << "" >>,
                              error |-> << "Dependency Not Met" >>,
                              duration |-> 0]
            IN  /\ stepOutcome[i] = << synthetic >> <=> failedDep
                /\ failedDep => executed[i] = 0
                /\ ~failedDep => /\ executed[i] = 1
                                 /\ stepOutcome[i] = << job[i].outcome >>

\* run_steps returned Ok with a chain: a step failed in execute, its
\* dependent was skipped, and the dependent of that one was skipped for the
\* synthetic error
C16_Witness ==
    /\ pc = "ok"
    /\ \E a, b, c \in Steps :
          /\ a \in Incoming(b)
          /\ b \in Incoming(c)
          /\ behaviour[a] = "fail"
          /\ stepOutcome[b] = << DependencyNotMet >>
          /\ stepOutcome[c] = << DependencyNotMet >>
          /\ Incoming(c) = {b}

\* C17: while poll of runner i holds the lock, no status other than
\* status[i] changes; and a poll that finds status[i] Completed, or whose
\* first dependency not Completed without error is not yet Completed, ends
\* with the status table as it was, nothing submitted and nothing sent.
C17_PollFrame ==
    [][/\ lock = "coord" =>
             \A j \in Steps : j # polling => status'[j] = status[j]
       /\ (/\ lock = "coord"
           /\ ~has_error
           /\ lock' = "free" \/ has_error'
           /\ \/ IsCompleted(status[polling])
              \/ /\ FirstUnsatisfied(order, status) # 0
                 /\ ~IsCompleted(status[FirstUnsatisfied(order, status)]))
          => /\ lock' = "free"
             /\ status' = status
             /\ job' = job
             /\ queue' = queue
             /\ dispatched' = dispatched
             /\ chan' = chan
             /\ sent' = sent]_vars

\* poll runs on a step that is already Completed (skipped for a failed
\* dependency) and is polled again for another dependency
C17_Witness ==
    /\ lock = "coord"
    /\ ~has_error
    /\ pc = "cascade"
    /\ IsCompleted(status[polling])
    /\ \E d \in Incoming(polling) : HasError(status[d])
    /\ \E d \in Incoming(polling) : IsCompleted(status[d]) /\ ~HasError(status[d])

\* C18: from the moment poll takes the lock to its return the status table
\* changes only by poll's own write, made to the polled step as poll
\* returns: no write of a closure takes effect in between, and a closure
\* writes only while poll does not hold the lock.
C18_PollCriticalSection ==
    [][/\ (lock = "coord" /\ lock' = "coord") => status' = status
       /\ (lock = "coord" /\ lock' = "free") =>
             /\ \A j \in Steps : j # polling => status'[j] = status[j]
             /\ status'[polling] \in
                   {status[polling], InProgress, Completed(DependencyNotMet)}
             /\ \A j \in Steps : job[j].phase = "running" =>
                                    job'[j].phase = "running"
       /\ \A j \in Steps :
             (job[j].phase = "running" /\ job'[j].phase = "written") =>
                 /\ lock = "free"
                 /\ lock' = "free"
                 /\ status' = [status EXCEPT ![j] = Completed(job[j].outcome)]]_vars

\* poll holds the lock on a step while the closure of one of its
\* dependencies has finished execute and waits to write
C18_Witness ==
    /\ lock = "coord"
    /\ \E j \in Incoming(polling) :
          /\ job[j].phase = "running"
          /\ status[j] = InProgress

\* C19: when run_steps receives an index f, status[f] is Completed; that
\* status never changes afterwards; and every poll made in response to f
\* is of a dependent of f and runs with status[f] Completed.
C19_ReceivedIsCompleted ==
    /\ [](pc = "cascade" =>
             /\ finished \in Steps
             /\ IsCompleted(status[finished])
             /\ toPoll \subseteq Outgoing(finished)
             /\ lock = "coord" => finished \in Incoming(polling))
    /\ [][/\ received' # received => IsCompleted(status[Head(chan)])
          /\ \A j \in Steps :
                (pc \notin {"start", "graph_err"} /\ IsCompleted(status[j])) =>
                    status'[j] = status[j]]_vars

\* the dependents of a step skipped for a failed dependency (sent by poll
\* itself) are polled after its notification was received
C19_Witness ==
    /\ pc = "cascade"
    /\ lock = "coord"
    /\ finished \in Steps
    /\ dispatched[finished] = 0
    /\ status[finished] = Completed(DependencyNotMet)
    /\ finished \in Incoming(polling)

\* C20: once the receive loop has ended, the channel holds no message, every
\* step is Completed, no closure waits, runs or has its write or send still
\* to do, and the lock is free; and from the last receive on the status
\* table does not change, so the table run_steps consumes after the join is
\* the table at the last receive.
C20_QuiescentAtLoopExit ==
    /\ [](LoopDone =>
             /\ received = nsteps
             /\ chan = << >>
             /\ queue = << >>
             /\ lock = "free"
             /\ \A i \in Steps :
                   /\ IsCompleted(status[i])
                   /\ job[i].phase \in {"none", "done"}
                   /\ sent[i] = 1)
    /\ [][(pc \notin {"start", "graph_err"} /\ received = nsteps) =>
             status' = status]_vars

\* the receive loop has just ended for three steps, one of them skipped
\* and one executed with success
C20_Witness ==
    /\ pc = "join"
    /\ nsteps = MaxSteps
    /\ received = nsteps
    /\ \E i \in Steps : Skipped(i)
    /\ \E i \in Steps : job[i].phase = "done" /\ ~HasError(status[i])

====
